---------------------------- MODULE Spec2Model ----------------------------
(***************************************************************************)
(* Inline spell checker (browser extension).                               *)
(*                                                                         *)
(* The background service worker (src/TECHNICAL_GUIDE.md, lines 329-521)   *)
(* answers SPELLCHECK messages: it reads the options, loads the lexicon    *)
(* of the language through a per-URL promise cache, lower-cases the token, *)
(* short-circuits on known words and otherwise generates the              *)
(* edit-distance-one candidates and ranks the known ones.                  *)
(*                                                                         *)
(* Strings are sequences of one-character strings.  Scores are real        *)
(* numbers in the code; here they are fixed-point, in thousandths.         *)
(***************************************************************************)
EXTENDS Integers, Sequences, FiniteSets, TLC

(***************************************************************************)
(* Bounds of the model.                                                    *)
(***************************************************************************)
MaxWordLen == 2
MaxRequests == 2
MaxSaves == 1
MaxEvents == 2
MaxTicks == 4

(***************************************************************************)
(* Generic helpers on sequences (Array.prototype.map / filter / flatMap).  *)
(***************************************************************************)
MapSeq(s, f(_)) == [i \in 1..Len(s) |-> f(s[i])]

RECURSIVE Flatten(_)
Flatten(ss) == IF ss = <<>> THEN <<>> ELSE Head(ss) \o Flatten(Tail(ss))

FlatMap(s, f(_)) == Flatten(MapSeq(s, f))

Range(s) == {s[i] : i \in 1..Len(s)}

Min(a, b) == IF a <= b THEN a ELSE b

RECURSIVE SeqsUpTo(_, _)
SeqsUpTo(S, n) ==
    IF n = 0 THEN {<<>>}
    ELSE LET shorter == SeqsUpTo(S, n - 1)
         IN  shorter \cup {Append(s, c) : s \in shorter, c \in S}

(***************************************************************************)
(* new Set([...]) iterated in insertion order: the first occurrence of     *)
(* each element, in order.                                                 *)
(***************************************************************************)
SetOrder(seq) ==
    LET idx  == [i \in 1..Len(seq) |-> i]
        keep == SelectSeq(idx, LAMBDA i : \A j \in 1..(i - 1) : seq[j] # seq[i])
    IN  MapSeq(keep, LAMBDA i : seq[i])

(***************************************************************************)
(* Characters.  letters is the alphabet of editDistanceOne; upperLetters   *)
(* holds, position by position, the characters String.toLowerCase maps to  *)
(* them.                                                                   *)
(***************************************************************************)
letters ==
    << "a", "b", "c", "d", "e", "f", "g", "h", "i", "j", "k", "l", "m",
       "n", "o", "p", "q", "r", "s", "t", "u", "v", "w", "x", "y", "z",
       "á", "à", "â", "ã", "ä", "é", "ê", "ë", "í", "ï", "ó", "ô", "õ",
       "ö", "ú", "ü", "ç" >>

upperLetters ==
    << "A", "B", "C", "D", "E", "F", "G", "H", "I", "J", "K", "L", "M",
       "N", "O", "P", "Q", "R", "S", "T", "U", "V", "W", "X", "Y", "Z",
       "Á", "À", "Â", "Ã", "Ä", "É", "Ê", "Ë", "Í", "Ï", "Ó", "Ô", "Õ",
       "Ö", "Ú", "Ü", "Ç" >>

toLowerCaseChar(c) ==
    IF \E i \in 1..Len(upperLetters) : upperLetters[i] = c
    THEN letters[CHOOSE i \in 1..Len(upperLetters) : upperLetters[i] = c]
    ELSE c

toLowerCase(s) == [i \in 1..Len(s) |-> toLowerCaseChar(s[i])]

isWhitespace(c) == c \in {" ", "\t", "\n"}

RECURSIVE trimStart(_)
trimStart(s) ==
    IF s # <<>> /\ isWhitespace(Head(s)) THEN trimStart(Tail(s)) ELSE s

RECURSIVE trimEnd(_)
trimEnd(s) ==
    IF s # <<>> /\ isWhitespace(s[Len(s)])
    THEN trimEnd(SubSeq(s, 1, Len(s) - 1))
    ELSE s

trim(s) == trimEnd(trimStart(s))

(***************************************************************************)
(* String.split(sep): the pieces between separators, empty ones included.  *)
(***************************************************************************)
RECURSIVE splitFrom(_, _, _)
splitFrom(s, sep, cur) ==
    IF s = <<>> THEN <<cur>>
    ELSE IF Head(s) = sep
         THEN <<cur>> \o splitFrom(Tail(s), sep, <<>>)
         ELSE splitFrom(Tail(s), sep, Append(cur, Head(s)))

split(s, sep) == splitFrom(s, sep, <<>>)

(***************************************************************************)
(* parseCustomWords: split on commas, trim and lower-case each piece,      *)
(* drop the empty ones, as a set.                                          *)
(***************************************************************************)
parseCustomWords(customWords) ==
    Range(SelectSeq(MapSeq(split(customWords, ","),
                           LAMBDA word : toLowerCase(trim(word))),
                    LAMBDA word : word # <<>>))

(***************************************************************************)
(* Scores, in thousandths.  Math.log is tabulated on the frequencies the   *)
(* lexicons of the model record (round(1000 * ln f)).                      *)
(***************************************************************************)
DEFAULT_BIGRAM == -1500
DEFAULT_FREQUENCY == 1

MathLog(f) ==
    CASE f = 1   -> 0
      [] f = 2   -> 693
      [] f = 5   -> 1609
      [] f = 10  -> 2303
      [] f = 100 -> 4605

RECURSIVE SumSeq(_)
SumSeq(s) == IF s = <<>> THEN 0 ELSE Head(s) + SumSeq(Tail(s))

Lookup(table, key, default) ==
    IF key \in DOMAIN table THEN table[key] ELSE default

\* Mutant: the loop stops one window early (i < length - 2).
scoreWordSkipsLast(word, bigramScores) ==
    LET normalized == toLowerCase(word)
    IN  IF Len(normalized) < 2 THEN 0
        ELSE SumSeq([i \in 1..(Len(normalized) - 2) |->
                        Lookup(bigramScores, SubSeq(normalized, i, i + 1),
                               DEFAULT_BIGRAM)])

scoreWord(word, bigramScores) ==
    LET normalized == toLowerCase(word)
    IN  IF Len(normalized) < 2 THEN 0
        ELSE SumSeq([i \in 1..(Len(normalized) - 1) |->
                        Lookup(bigramScores, SubSeq(normalized, i, i + 1),
                               DEFAULT_BIGRAM)])

(***************************************************************************)
(* editDistanceOne: deletions, transpositions, substitutions, insertions   *)
(* over every (left, right) split, as a Set in insertion order.            *)
(***************************************************************************)
splits(word) ==
    [i \in 1..(Len(word) + 1) |->
        <<SubSeq(word, 1, i - 1), SubSeq(word, i, Len(word))>>]

deletes(word) ==
    MapSeq(SelectSeq(splits(word), LAMBDA s : s[2] # <<>>),
           LAMBDA s : s[1] \o Tail(s[2]))

transposes(word) ==
    MapSeq(SelectSeq(splits(word), LAMBDA s : Len(s[2]) > 1),
           LAMBDA s : s[1] \o <<s[2][2], s[2][1]>> \o SubSeq(s[2], 3, Len(s[2])))

replaces(word) ==
    FlatMap(SelectSeq(splits(word), LAMBDA s : s[2] # <<>>),
            LAMBDA s : MapSeq(letters, LAMBDA char : s[1] \o <<char>> \o Tail(s[2])))

\* Mutant: no insertion after the last character.
insertsInside(word) ==
    FlatMap(SelectSeq(splits(word), LAMBDA s : s[2] # <<>>),
            LAMBDA s : MapSeq(letters, LAMBDA char : s[1] \o <<char>> \o s[2]))

inserts(word) ==
    FlatMap(splits(word),
            LAMBDA s : MapSeq(letters, LAMBDA char : s[1] \o <<char>> \o s[2]))

editDistanceOne(word) ==
    SetOrder(deletes(word) \o transposes(word) \o replaces(word) \o inserts(word))

(***************************************************************************)
(* rankCandidates: keep the known candidates, score, stable sort by        *)
(* descending score, first five.                                           *)
(***************************************************************************)
MaxSuggestions == 5

\* Mutant: a candidate with a recorded frequency counts as known.
isKnownByFrequency(candidate, model, customWords) ==
    candidate \in DOMAIN model.frequencies \/ candidate \in customWords

isKnown(candidate, model, customWords) ==
    candidate \in model.dictionary \/ candidate \in customWords

\* Mutant: the frequency prior left out of the score.
candidateScoreNoFrequency(candidate, model) ==
    scoreWord(candidate, model.bigramScores)

candidateScore(candidate, model) ==
    scoreWord(candidate, model.bigramScores)
        + MathLog(Lookup(model.frequencies, candidate, DEFAULT_FREQUENCY))

scoredCandidates(candidates, model, customWords) ==
    MapSeq(SelectSeq(candidates, LAMBDA c : isKnown(c, model, customWords)),
           LAMBDA c : [candidate |-> c, score |-> candidateScore(c, model)])

\* Mutant: an unstable sort, an entry put before the entries of its score.
RECURSIVE insertByScoreBeforeEqual(_, _)
insertByScoreBeforeEqual(sorted, e) ==
    IF sorted = <<>> THEN <<e>>
    ELSE IF Head(sorted).score > e.score
         THEN <<Head(sorted)>> \o insertByScoreBeforeEqual(Tail(sorted), e)
         ELSE <<e>> \o sorted

\* Array.prototype.sort with comparator (a, b) => b.score - a.score: stable.
RECURSIVE insertByScore(_, _)
insertByScore(sorted, e) ==
    IF sorted = <<>> THEN <<e>>
    ELSE IF Head(sorted).score >= e.score
         THEN <<Head(sorted)>> \o insertByScore(Tail(sorted), e)
         ELSE <<e>> \o sorted

RECURSIVE sortFrom(_, _)
sortFrom(rest, sorted) ==
    IF rest = <<>> THEN sorted
    ELSE sortFrom(Tail(rest), insertByScore(sorted, Head(rest)))

\* Mutant: comparator a.score - b.score (ascending).
RECURSIVE insertByScoreAscending(_, _)
insertByScoreAscending(sorted, e) ==
    IF sorted = <<>> THEN <<e>>
    ELSE IF Head(sorted).score <= e.score
         THEN <<Head(sorted)>> \o insertByScoreAscending(Tail(sorted), e)
         ELSE <<e>> \o sorted

RECURSIVE sortAscendingFrom(_, _)
sortAscendingFrom(rest, sorted) ==
    IF rest = <<>> THEN sorted
    ELSE sortAscendingFrom(Tail(rest), insertByScoreAscending(sorted, Head(rest)))

sortByScoreAscending(scored) == sortAscendingFrom(scored, <<>>)

sortByScore(scored) == sortFrom(scored, <<>>)

rankCandidates(token, candidates, model, customWords) ==
    LET sorted == sortByScore(scoredCandidates(candidates, model, customWords))
    IN  MapSeq(SubSeq(sorted, 1, Min(MaxSuggestions, Len(sorted))),
               LAMBDA entry : entry.candidate)


(***************************************************************************)
(* Lexicon files shipped with the extension (models/model.json and         *)
(* models/pt.json) and their parse by loadModel's then-chain.  A file is   *)
(* a record; valid = FALSE stands for a body response.json() or the        *)
(* transform rejects (not JSON, no dictionary array).                      *)
(***************************************************************************)
NoTable == [w \in {} |-> 0]

EnglishFile ==
    [valid        |-> TRUE,
     dictionary   |-> {<<"a">>, <<"B">>, <<"b", "a">>, <<"a", "a">>, <<"b", "b">>,
                       <<"a", "b", "a">>, <<"a", "b", "b">>},
     frequencies  |-> (<<"a">> :> 100) @@ (<<"b", "b">> :> 5) @@ (<<"a", "a">> :> 10)
                         @@ (<<"b", "c">> :> 2) @@ (<<"a", "c">> :> 2),
     bigramScores |-> (<<"a", "a">> :> -200) @@ (<<"b", "a">> :> -1500)]

SparseFile ==
    [valid        |-> TRUE,
     dictionary   |-> {<<"b", "a">>, <<"a", "b", "b">>},
     frequencies  |-> NoTable,
     bigramScores |-> NoTable]

PortugueseFile ==
    [valid        |-> TRUE,
     dictionary   |-> {<<"a", "b">>, <<"á">>, <<"a">>},
     frequencies  |-> (<<"á">> :> 2),
     bigramScores |-> NoTable]

BrokenFile ==
    [valid        |-> FALSE,
     dictionary   |-> {},
     frequencies  |-> NoTable,
     bigramScores |-> NoTable]

\* .then((data) => ({dictionary: new Set(data.dictionary.map(lower)), ...}))
parseModel(data) ==
    [dictionary   |-> {toLowerCase(word) : word \in data.dictionary},
     frequencies  |-> data.frequencies,
     bigramScores |-> data.bigramScores]

NoModel == parseModel(BrokenFile)

(***************************************************************************)
(* Options.                                                                *)
(***************************************************************************)
NoCustomWords == <<>>
SomeCustomWords == <<"z", "q", ",", " ", "A", "b", " ", ",">>

defaultOptions ==
    [enabled |-> TRUE, language |-> "en-US", customWords |-> NoCustomWords]

OptionKeys == {"enabled", "language", "customWords"}

OptionChoices ==
    { defaultOptions,
      [enabled |-> FALSE, language |-> "en-US", customWords |-> NoCustomWords],
      [enabled |-> TRUE,  language |-> "pt-PT", customWords |-> NoCustomWords],
      [enabled |-> TRUE,  language |-> "fr-FR", customWords |-> SomeCustomWords] }

ModelUrl == "models/model.json"
PtUrl == "models/pt.json"
Urls == {ModelUrl, PtUrl}

\* The values options.language can hold: the tags the options page offers,
\* a tag in another case, an unknown one, the empty string, undefined.
LanguageValues == {"en-US", "pt-PT", "fr-FR", "pt-pt", "pt", "", "undefined"}

\* Mutant: only 'en-US' selects the English lexicon.
getModelUrlEnglishOnly(language) ==
    IF language = "en-US" THEN ModelUrl ELSE PtUrl

getModelUrl(language) ==
    IF language = "pt-PT" THEN PtUrl ELSE ModelUrl

(***************************************************************************)
(* loadModel(language): the synchronous part.  The promise of a URL is     *)
(* identified with its cache entry.                                        *)
(***************************************************************************)
\* Mutant: no modelCache.has check, every call fetches.
loadModelNoCache(language, cache, fetched) ==
    LET modelUrl == getModelUrl(language)
    IN  [modelCache |-> [cache EXCEPT ![modelUrl] = [state |-> "pending", model |-> NoModel]],
         fetches    |-> [fetched EXCEPT ![modelUrl] = @ + 1],
         started    |-> TRUE,
         promise    |-> modelUrl]

\* Mutant: a rejected promise is dropped from the cache and the load retried.
loadModelRetryRejected(language, cache, fetched) ==
    LET modelUrl == getModelUrl(language)
    IN  IF cache[modelUrl].state \in {"absent", "rejected"}
        THEN [modelCache |-> [cache EXCEPT ![modelUrl].state = "pending"],
              fetches    |-> [fetched EXCEPT ![modelUrl] = @ + 1],
              started    |-> TRUE,
              promise    |-> modelUrl]
        ELSE [modelCache |-> cache,
              fetches    |-> fetched,
              started    |-> FALSE,
              promise    |-> modelUrl]

loadModel(language, cache, fetched) ==
    LET modelUrl == getModelUrl(language)
    IN  IF cache[modelUrl].state = "absent"
        THEN [modelCache |-> [cache EXCEPT ![modelUrl].state = "pending"],
              fetches    |-> [fetched EXCEPT ![modelUrl] = @ + 1],
              started    |-> TRUE,
              promise    |-> modelUrl]
        ELSE [modelCache |-> cache,
              fetches    |-> fetched,
              started    |-> FALSE,
              promise    |-> modelUrl]

(***************************************************************************)
(* suggestCorrections, after the lexicon is there (lines 500-507).         *)
(***************************************************************************)
CorrectVerdict == [isCorrect |-> TRUE, suggestions |-> <<>>]

\* Mutant: the enabled check of line 496 left out.
gateOpenAlways(options) == TRUE

\* line 496: the gate; TRUE lets the call go on to the lexicon.
gateOpen(options) == options.enabled

\* Mutant: line 502 without the dictionary test.
isShortCircuitNoDictionary(normalized, model, customWords) ==
    \/ normalized = <<>>
    \/ normalized \in customWords

\* Mutant: line 502 without the custom-word test.
isShortCircuitNoCustom(normalized, model, customWords) ==
    \/ normalized = <<>>
    \/ normalized \in model.dictionary

\* line 502
isShortCircuit(normalized, model, customWords) ==
    \/ normalized = <<>>
    \/ normalized \in model.dictionary
    \/ normalized \in customWords

\* Mutant: line 507 reports every miss as a misspelling.
checkTokenMissIsMisspelled(token, model, customWordsRaw) ==
    LET normalized  == toLowerCase(token)
        customWords == parseCustomWords(customWordsRaw)
    IN  IF isShortCircuit(normalized, model, customWords)
        THEN CorrectVerdict
        ELSE [isCorrect   |-> FALSE,
              suggestions |-> rankCandidates(normalized, editDistanceOne(normalized),
                                             model, customWords)]

checkToken(token, model, customWordsRaw) ==
    LET normalized  == toLowerCase(token)
        customWords == parseCustomWords(customWordsRaw)
    IN  IF isShortCircuit(normalized, model, customWords)
        THEN CorrectVerdict
        ELSE LET candidates  == editDistanceOne(normalized)
                 suggestions == rankCandidates(normalized, candidates, model, customWords)
             IN  [isCorrect |-> suggestions = <<>>, suggestions |-> suggestions]

(***************************************************************************)
(* The onMessage listener's two continuations (lines 513-519).             *)
(***************************************************************************)
onFulfilled(token, result) ==
    [token |-> token, isCorrect |-> result.isCorrect, suggestions |-> result.suggestions]

\* Mutant: the catch of line 519 reports the failure as a misspelling.
onRejectedAsError(token) ==
    [token |-> token, isCorrect |-> FALSE, suggestions |-> <<>>]

onRejected(token) ==
    [token |-> token, isCorrect |-> TRUE, suggestions |-> <<>>]

(***************************************************************************)
(* Content script (src/content.js).  Time is in milliseconds and passes    *)
(* in steps of TickMs.                                                     *)
(***************************************************************************)
DebounceDelay == 200
TickMs == 100

\* debounce (lines 1-7).  A pending timer is [id, due, target]; the id is
\* the number of the event that set it.
\* Mutant: debounce without clearTimeout.
clearTimeoutNothing(timers, id) == timers

clearTimeout(timers, id) == {t \in timers : t.id # id}

setTimeout(timers, id, target, now) ==
    timers \cup {[id |-> id, due |-> now + DebounceDelay, target |-> target]}

\* Event targets: a contenteditable element, a text input, a checkbox.
Editor ==
    [name |-> "editor", isContentEditable |-> TRUE, tagName |-> "DIV", type |-> ""]
TextInput ==
    [name |-> "input", isContentEditable |-> FALSE, tagName |-> "INPUT", type |-> "text"]
Checkbox ==
    [name |-> "checkbox", isContentEditable |-> FALSE, tagName |-> "INPUT",
     type |-> "checkbox"]
Targets == {Editor, TextInput, Checkbox}

isEditable(target) ==
    IF target.isContentEditable THEN TRUE
    ELSE IF target.tagName = "TEXTAREA" THEN TRUE
    ELSE IF target.tagName = "INPUT" THEN target.type \in {"text", "search"}
    ELSE FALSE

endsWith(s, suffix) ==
    /\ Len(suffix) <= Len(s)
    /\ SubSeq(s, Len(s) - Len(suffix) + 1, Len(s)) = suffix

allowlistEntries(allowlist) ==
    SelectSeq(MapSeq(split(allowlist, "\n"), LAMBDA entry : trim(entry)),
              LAMBDA entry : entry # <<>>)

\* Mutant: hostname.endsWith(entry), without the dot.
isAllowedForHostNoDot(hostname, allowlist) ==
    IF allowlist = <<>> THEN TRUE
    ELSE LET entries == allowlistEntries(allowlist)
         IN  IF entries = <<>> THEN TRUE
             ELSE \E k \in 1..Len(entries) :
                     hostname = entries[k] \/ endsWith(hostname, entries[k])

isAllowedForHost(hostname, allowlist) ==
    IF allowlist = <<>> THEN TRUE
    ELSE LET entries == allowlistEntries(allowlist)
         IN  IF entries = <<>> THEN TRUE
             ELSE \E k \in 1..Len(entries) :
                     hostname = entries[k] \/ endsWith(hostname, <<".">> \o entries[k])

\* The keys of currentOptions the content script reads.
pageDefaultOptions == [enabled |-> TRUE, allowlist |-> <<>>]
PageOptionKeys == {"enabled", "allowlist"}

PageOptionChoices ==
    { pageDefaultOptions,
      [enabled |-> FALSE, allowlist |-> <<>>],
      [enabled |-> TRUE,  allowlist |-> <<"c", " ", "\n", "b">>] }

\* window.location.hostname: b, a.b, cb.
Hostnames == {<<"b">>, <<"a", ".", "b">>, <<"c", "b">>}

\* What getWordFromContentEditable / getWordFromInput find when the timer
\* fires: nothing (no selection in the element), an empty word, a word.
NoWordData == [found |-> FALSE, word |-> <<>>]
PageWords == {<<"a", "b">>, <<"b", "c">>}
WordData(target) ==
    {[found |-> TRUE, word |-> w] : w \in {<<>>} \cup PageWords}
        \cup (IF target.isContentEditable THEN {NoWordData} ELSE {})

\* What the callback of sendMessage is called with: undefined (no answer),
\* or the response of the worker's listener for the token of the message
\* (lines 510-521): a correct verdict (disabled, a failure, a custom word)
\* or the verdict of suggestCorrections on a lexicon of two words.
WorkerVerdicts ==
    [w \in PageWords |-> checkToken(w, parseModel(SparseFile), NoCustomWords)]

PageResultsFor(token) ==
    { [defined |-> FALSE, token |-> <<>>, isCorrect |-> FALSE, suggestions |-> <<>>],
      [defined |-> TRUE] @@ onRejected(token),
      [defined |-> TRUE] @@ onFulfilled(token, WorkerVerdicts[token]) }

PageResults == UNION {PageResultsFor(w) : w \in PageWords}

NullRange == [kind |-> "null", start |-> 0, end |-> 0]

\* The last change applySuggestion made to the document: the element, the
\* range replaced, the word the range was taken for, and the text put in.
NoEdit == [element |-> "null", range |-> NullRange, word |-> <<>>, text |-> <<>>]

PageIdle ==
    [now |-> 0, hostname |-> <<"b">>,
     stored |-> pageDefaultOptions, changes |-> <<>>, saves |-> 0,
     loaded |-> "pending", options |-> pageDefaultOptions,
     events |-> 0, eventTimes |-> <<>>, timer |-> 0, timers |-> {}, fired |-> <<>>,
     suggestionState |-> [activeElement |-> "null", range |-> NullRange,
                          word |-> <<>>, suggestions |-> <<>>],
     bubble |-> [display |-> "none", content |-> <<>>],
     sent |-> <<>>, awaiting |-> {}, edit |-> NoEdit]

hideBubble(p) == [p EXCEPT !.bubble = [display |-> "none", content |-> <<>>]]

showSuggestions(p, suggestions) ==
    [p EXCEPT !.bubble = [display |-> IF suggestions # <<>> THEN "flex" ELSE "none",
                          content |-> suggestions]]

\* applySuggestion (lines 162-177): range.deleteContents / insertNode for a
\* contenteditable element, setRangeText for an input or textarea.
applySuggestion(p, suggestion) ==
    LET state == p.suggestionState
    IN  IF state.activeElement = "null" THEN p
        ELSE hideBubble([p EXCEPT !.edit = [element |-> state.activeElement,
                                            range   |-> state.range,
                                            word    |-> state.word,
                                            text    |-> suggestion]])

\* lines 179-194; activeElement is an editable element or null.
handleSpellcheckResult(p, result) ==
    IF ~result.defined \/ result.isCorrect
    THEN hideBubble(p)
    ELSE LET p1 == [p EXCEPT !.suggestionState.suggestions = result.suggestions]
         IN  IF p1.suggestionState.activeElement # "null"
             THEN showSuggestions(p1, result.suggestions)
             ELSE p1

\* chrome.runtime.sendMessage({type: 'SPELLCHECK', token}, handleSpellcheckResult)
sendMessage(p, token, event) ==
    [p EXCEPT !.sent = Append(@, [token |-> token, event |-> event, time |-> p.now]),
              !.awaiting = @ \cup {Len(p.sent) + 1}]

\* The function debounced at lines 196-234, run for `target`.
requestSpellcheck(p, target, wordData, event) ==
    IF ~p.options.enabled THEN hideBubble(p)
    ELSE IF ~isAllowedForHost(p.hostname, p.options.allowlist) THEN hideBubble(p)
    ELSE IF ~wordData.found \/ wordData.word = <<>> THEN hideBubble(p)
    ELSE LET range == IF target.isContentEditable
                      THEN [kind |-> "range", start |-> 0, end |-> Len(wordData.word)]
                      ELSE [kind |-> "offsets", start |-> 0, end |-> Len(wordData.word)]
             p1 == [p EXCEPT !.suggestionState.activeElement = target.name,
                             !.suggestionState.range = range,
                             !.suggestionState.word = wordData.word]
         IN  sendMessage(p1, wordData.word, event)

(***************************************************************************)
(* State of the background service worker.                                 *)
(*                                                                         *)
(*  storage        chrome.storage.sync, defaults merged in; unset at first *)
(*  changes        storage.onChanged events not yet delivered              *)
(*  saves          number of saves made by the options page                *)
(*  optObjs        the option objects: currentOptions and each call's      *)
(*                 `options` are references into it.  Object 0 is the one  *)
(*                 of line 337, object i the one made by loadOptions for   *)
(*                 request i, object StartupObj the one made by the        *)
(*                 loadOptions() of line 443.  An object nothing refers to *)
(*                 any more is reset to the defaults (garbage collection)  *)
(*  currentOptions the object the global currentOptions refers to          *)
(*  startup        the loadOptions() call of line 443                      *)
(*  files          the lexicon file behind each URL                        *)
(*  modelCache     per URL: the state of the promise in modelCache and     *)
(*                 the lexicon it fulfilled with                           *)
(*  fetches        per URL: the number of fetch() calls made               *)
(*  req            the SPELLCHECK messages: where each call stands, what   *)
(*                 it read and the responses sent                          *)
(*  core           the pure functions applied to drawn inputs (SpecCore)   *)
(*  page           the content script of one page (SpecContent)            *)
(***************************************************************************)
VARIABLES storage, changes, saves, optObjs, currentOptions, startup,
          files, modelCache, fetches, req, core, page

bgVars == <<storage, changes, saves, optObjs, currentOptions, startup,
            files, modelCache, fetches, req>>
vars == <<storage, changes, saves, optObjs, currentOptions, startup,
          files, modelCache, fetches, req, core, page>>

Requests == 1..MaxRequests
StartupObj == MaxRequests + 1
ObjIds == 0..StartupObj

\* Unreferenced option objects are reset: nothing can read them again.
collect(objs, cur, reqs) ==
    [o \in ObjIds |->
        IF o = cur \/ \E i \in Requests : reqs[i].pc = "awaitModel" /\ reqs[i].options = o
        THEN objs[o]
        ELSE defaultOptions]

\* The tokens the content script or any other sender may put in a message.
Tokens == {<<"A">>, <<"a", "b">>}

NoRequest ==
    [pc |-> "none", token |-> <<>>, isString |-> TRUE, options |-> 0,
     enabledRead |-> "unread", languageRead |-> "unread",
     customAtCall |-> <<>>, customRead |-> <<>>, customWasRead |-> FALSE,
     promise |-> "none", touched |-> FALSE, started |-> FALSE,
     awaited |-> FALSE, failed |-> FALSE, responses |-> <<>>]

CoreIdle ==
    [pc |-> "idle", token |-> <<>>, language |-> "en-US", model |-> NoModel,
     customWords |-> <<>>, source |-> "none", candidates |-> <<>>,
     scored |-> <<>>, ranked |-> <<>>, verdict |-> CorrectVerdict, score |-> 0]

BgInit ==
    /\ storage = defaultOptions
    /\ changes = <<>>
    /\ saves = 0
    /\ optObjs = [o \in ObjIds |-> defaultOptions]
    /\ currentOptions = 0
    /\ startup = "pending"
    /\ files \in [Urls -> {EnglishFile, PortugueseFile, BrokenFile}]
    /\ files[ModelUrl] = EnglishFile
    /\ files[PtUrl] = PortugueseFile
    /\ modelCache = [u \in Urls |-> [state |-> "absent", model |-> NoModel]]
    /\ fetches = [u \in Urls |-> 0]
    /\ req = [i \in Requests |-> NoRequest]

Init == BgInit /\ core = CoreIdle /\ page = PageIdle

(***************************************************************************)
(* loadOptions (lines 389-393), once storage.sync.get has resolved: a new  *)
(* object {...defaultOptions, ...stored} becomes currentOptions.           *)
(***************************************************************************)
StartupLoadOptions ==
    /\ startup = "pending"
    /\ startup' = "done"
    /\ currentOptions' = StartupObj
    /\ optObjs' = collect([optObjs EXCEPT ![StartupObj] = storage], StartupObj, req)
    /\ UNCHANGED <<storage, changes, saves, files, modelCache, fetches, req, core, page>>

(***************************************************************************)
(* options.js saveOptions: storage.sync.set of every key; the browser      *)
(* queues an onChanged event naming the keys whose value changed.          *)
(***************************************************************************)
SaveOptions(new) ==
    /\ saves < MaxSaves
    /\ new # storage
    /\ saves' = saves + 1
    /\ storage' = new
    /\ changes' = Append(changes,
                         [keys |-> {k \in OptionKeys : new[k] # storage[k]},
                          newValue |-> new])
    /\ UNCHANGED <<optObjs, currentOptions, startup, files, modelCache,
                   fetches, req, core, page>>

\* storage.onChanged listener (lines 433-437): mutates currentOptions in place.
StorageOnChanged ==
    /\ changes # <<>>
    /\ LET ch  == Head(changes)
           old == optObjs[currentOptions]
       IN  optObjs' = [optObjs EXCEPT ![currentOptions] =
                          [k \in OptionKeys |->
                              IF k \in ch.keys THEN ch.newValue[k] ELSE old[k]]]
    /\ changes' = Tail(changes)
    /\ UNCHANGED <<storage, saves, currentOptions, startup, files, modelCache,
                   fetches, req, core, page>>

(***************************************************************************)
(* checkToken tabulated once on the inputs the service worker can meet     *)
(* (an evaluation aid: the table holds checkToken's values).               *)
(***************************************************************************)
CheckMemo ==
    [k \in Tokens
            \X {parseModel(f) : f \in {EnglishFile, PortugueseFile}}
            \X {o.customWords : o \in OptionChoices}
        |-> checkToken(k[1], k[2], k[3])] @@ NoTable

checkTokenMemo(token, model, customWordsRaw) ==
    IF <<token, model, customWordsRaw>> \in DOMAIN CheckMemo
    THEN CheckMemo[<<token, model, customWordsRaw>>]
    ELSE checkToken(token, model, customWordsRaw)

(***************************************************************************)
(* A call of suggestCorrections from `await loadModel(options.language)`   *)
(* on.  r.options is the call's options object.  With the promise settled  *)
(* the continuation runs in the same turn; otherwise the call waits.       *)
(***************************************************************************)
\* Mutant: the listener without the catch of line 519.
resumeNoCatch(r, entry, objs) ==
    IF entry.state = "rejected" \/ ~r.isString
    THEN [r EXCEPT !.pc = "done", !.failed = TRUE, !.options = 0]
    ELSE LET raw == objs[r.options].customWords
         IN  [r EXCEPT !.pc = "done", !.options = 0,
                       !.customRead = raw, !.customWasRead = TRUE,
                       !.responses = Append(@,
                           onFulfilled(r.token, checkTokenMemo(r.token, entry.model, raw)))]

resume(r, entry, objs) ==
    IF entry.state = "rejected" \/ ~r.isString
    THEN \* the await throws, or token.toLowerCase is not a function
         [r EXCEPT !.pc = "done", !.failed = TRUE, !.options = 0,
                   !.responses = Append(@, onRejected(r.token))]
    ELSE LET raw == objs[r.options].customWords
         IN  [r EXCEPT !.pc = "done", !.options = 0,
                       !.customRead = raw, !.customWasRead = TRUE,
                       !.responses = Append(@,
                           onFulfilled(r.token, checkTokenMemo(r.token, entry.model, raw)))]

\* line 499 for request record r with its options read; gives the new record.
\* awaited: the call had to wait for the fetch to settle.
callLoadModel(r, objs, loaded) ==
    LET r1 == [r EXCEPT !.languageRead = objs[r.options].language,
                        !.promise = loaded.promise,
                        !.touched = TRUE,
                        !.started = loaded.started]
        entry == loaded.modelCache[loaded.promise]
    IN  IF entry.state \in {"fulfilled", "rejected"}
        THEN resume(r1, entry, objs)
        ELSE [r1 EXCEPT !.pc = "awaitModel", !.awaited = TRUE]

\* lines 495-499 with `options` in hand.
withOptions(r, objs, cache, fetched) ==
    LET r0 == [r EXCEPT !.enabledRead = IF objs[r.options].enabled THEN "yes" ELSE "no",
                        !.customAtCall = objs[r.options].customWords]
    IN  IF ~gateOpen(objs[r.options])
        THEN [req |-> [r0 EXCEPT !.pc = "done", !.options = 0,
                                 !.responses = Append(@, onFulfilled(r.token, CorrectVerdict))],
              modelCache |-> cache, fetches |-> fetched]
        ELSE LET loaded == loadModel(objs[r.options].language, cache, fetched)
             IN  [req |-> callLoadModel(r0, objs, loaded),
                  modelCache |-> loaded.modelCache, fetches |-> loaded.fetches]

(***************************************************************************)
(* onMessage listener, type SPELLCHECK (lines 510-521), up to the first    *)
(* await of suggestCorrections.                                            *)
(***************************************************************************)
ReceiveSpellcheck(i, token, isString) ==
    /\ req[i].pc = "none"
    /\ \A j \in Requests : j < i => req[j].pc # "none"
    /\ LET r == [req[i] EXCEPT !.token = token, !.isString = isString]
       IN  IF optObjs[currentOptions].enabled
           THEN LET out == withOptions([r EXCEPT !.options = currentOptions],
                                       optObjs, modelCache, fetches)
                IN  /\ req' = [req EXCEPT ![i] = out.req]
                    /\ modelCache' = out.modelCache
                    /\ fetches' = out.fetches
           ELSE /\ req' = [req EXCEPT ![i] = [r EXCEPT !.pc = "awaitOptions"]]
                /\ UNCHANGED <<modelCache, fetches>>
    /\ UNCHANGED <<storage, changes, saves, optObjs, currentOptions, startup,
                   files, core, page>>

\* `await loadOptions()` of line 495 resolves.
OptionsLoaded(i) ==
    /\ req[i].pc = "awaitOptions"
    /\ currentOptions' = i
    /\ LET objs == [optObjs EXCEPT ![i] = storage]
           out  == withOptions([req[i] EXCEPT !.options = i], objs, modelCache, fetches)
       IN  /\ req' = [req EXCEPT ![i] = out.req]
           /\ optObjs' = collect(objs, i, req')
           /\ modelCache' = out.modelCache
           /\ fetches' = out.fetches
    /\ UNCHANGED <<storage, changes, saves, startup, files, core, page>>

\* `await loadOptions()` rejects: the listener's catch answers.
OptionsLoadFails(i) ==
    /\ req[i].pc = "awaitOptions"
    /\ req' = [req EXCEPT ![i] = [@ EXCEPT !.pc = "done", !.failed = TRUE,
                                     !.responses = Append(@, onRejected(req[i].token))]]
    /\ UNCHANGED <<storage, changes, saves, optObjs, currentOptions, startup,
                   files, modelCache, fetches, core, page>>

(***************************************************************************)
(* The fetch of a URL settles (lines 349-357); every call awaiting the     *)
(* promise resumes in the same microtask checkpoint.                       *)
(***************************************************************************)
settle(u, entry) ==
    /\ modelCache' = [modelCache EXCEPT ![u] = entry]
    /\ req' = [i \in Requests |->
                  IF req[i].pc = "awaitModel" /\ req[i].promise = u
                  THEN resume(req[i], entry, optObjs)
                  ELSE req[i]]
    /\ optObjs' = collect(optObjs, currentOptions, req')
    /\ UNCHANGED <<storage, changes, saves, currentOptions, startup,
                   files, fetches, core, page>>

FetchFulfils(u) ==
    /\ modelCache[u].state = "pending"
    /\ files[u].valid
    /\ settle(u, [state |-> "fulfilled", model |-> parseModel(files[u])])

\* The fetch fails, or the body is not a lexicon.
FetchRejects(u) ==
    /\ modelCache[u].state = "pending"
    /\ settle(u, [state |-> "rejected", model |-> NoModel])

BgNext ==
    \/ StartupLoadOptions
    \/ \E new \in OptionChoices : SaveOptions(new)
    \/ StorageOnChanged
    \/ \E i \in Requests, token \in Tokens : ReceiveSpellcheck(i, token, TRUE)
    \/ \E i \in Requests : ReceiveSpellcheck(i, <<>>, FALSE)
    \/ \E i \in Requests : OptionsLoaded(i)
    \/ \E i \in Requests : OptionsLoadFails(i)
    \/ \E u \in Urls : FetchFulfils(u)
    \/ \E u \in Urls : FetchRejects(u)

Next == BgNext

Spec == Init /\ [][Next]_vars

(***************************************************************************)
(* The promises a call awaits settle: chrome.storage.sync.get of           *)
(* loadOptions (line 390) and the fetch chain of loadModel (lines          *)
(* 349-357) each resolve or reject.                                        *)
(***************************************************************************)
Settling ==
    /\ \A i \in Requests : WF_vars(OptionsLoaded(i) \/ OptionsLoadFails(i))
    /\ \A u \in Urls : WF_vars(FetchFulfils(u) \/ FetchRejects(u))

SpecLive == Init /\ [][Next]_vars /\ Settling

(***************************************************************************)
(* The pure functions on drawn inputs: a word, a lexicon, a custom-word    *)
(* string; editDistanceOne, rankCandidates and checkToken applied to them. *)
(***************************************************************************)
CoreChars == {"a", "b", "A", " "}
CoreTokens == SeqsUpTo(CoreChars, MaxWordLen)

EmptyFile ==
    [valid |-> TRUE, dictionary |-> {}, frequencies |-> NoTable,
     bigramScores |-> NoTable]

\* The lexicon of the scenario of the specification, section 8.
HelloFile ==
    [valid        |-> TRUE,
     dictionary   |-> {<<"h", "e", "l", "l", "o">>, <<"h", "e", "l", "p">>,
                       <<"h", "e", "l", "l">>},
     frequencies  |-> (<<"h", "e", "l", "l", "o">> :> 100) @@ (<<"h", "e", "l", "p">> :> 10)
                         @@ (<<"h", "e", "l", "l">> :> 5),
     bigramScores |-> NoTable]

\* Words longer than MaxWordLen: the scenarios of section 8 and a word of
\* three letters with a recorded and an unrecorded bigram.
ScenarioTokens == {<<"h", "e", "l", "o">>, <<"x", "q">>, <<"A", "a", "b">>}

\* What models/model.json may hold, and models/pt.json: the language of the
\* check selects the file (getModelUrl).
CoreFiles(language) ==
    IF getModelUrl(language) = PtUrl
    THEN {PortugueseFile}
    ELSE {EnglishFile, SparseFile, EmptyFile, HelloFile}

CoreLanguages == {"en-US", "pt-PT"}

CoreModels ==
    {parseModel(f) : f \in UNION {CoreFiles(l) : l \in CoreLanguages}}

OtherCustomWords == <<" ", "a", "a", "b", ",", "a", "c", ",", ",", "B", "b">>
CoreCustoms == {NoCustomWords, SomeCustomWords, OtherCustomWords}

\* Candidate sequences that do not come from the generator.
CandidatePool ==
    << <<"b", "b">>, <<"x">>, <<"a">>, <<"a", "c">>, <<"a", "a">>, <<"a", "b", "b">>,
       <<"b", "a">>, <<"b">>, <<"a", "a", "b">>, <<"q", "q">> >>

Reverse(s) == [i \in 1..Len(s) |-> s[Len(s) + 1 - i]]

CoreInit ==
    /\ BgInit
    /\ storage = defaultOptions
    /\ page = PageIdle
    /\ \E t \in CoreTokens \cup ScenarioTokens, l \in CoreLanguages, c \in CoreCustoms :
          \E m \in CoreModels :
              /\ m \in {parseModel(f) : f \in CoreFiles(l)}
              /\ core = [CoreIdle EXCEPT !.token = t, !.language = l,
                                         !.model = m, !.customWords = c]

CoreGenerate ==
    /\ core.pc = "idle"
    /\ core' = [core EXCEPT !.pc = "generated", !.source = "generator",
                            !.candidates = editDistanceOne(core.token)]
    /\ UNCHANGED <<bgVars, page>>

CoreTakeCandidates(candidates) ==
    /\ core.pc = "idle"
    /\ core' = [core EXCEPT !.pc = "generated", !.source = "pool",
                            !.candidates = candidates]
    /\ UNCHANGED <<bgVars, page>>

CoreRank ==
    /\ core.pc = "generated"
    /\ core' = [core EXCEPT !.pc = "ranked",
                            !.scored = scoredCandidates(core.candidates, core.model,
                                           parseCustomWords(core.customWords)),
                            !.ranked = rankCandidates(core.token, core.candidates,
                                           core.model,
                                           parseCustomWords(core.customWords))]
    /\ UNCHANGED <<bgVars, page>>

CoreCheck ==
    /\ core.pc = "idle"
    /\ core' = [core EXCEPT !.pc = "checked",
                            !.verdict = checkToken(core.token, core.model,
                                                   core.customWords)]
    /\ UNCHANGED <<bgVars, page>>

\* scoreWord applied to the word and the lexicon's bigram table.
CoreScore ==
    /\ core.pc = "idle"
    /\ core' = [core EXCEPT !.pc = "scored",
                            !.score = scoreWord(core.token, core.model.bigramScores)]
    /\ UNCHANGED <<bgVars, page>>

CoreNext ==
    \/ CoreGenerate
    \/ \E candidates \in {CandidatePool, Reverse(CandidatePool)} :
          CoreTakeCandidates(candidates)
    \/ CoreRank
    \/ CoreCheck
    \/ CoreScore

SpecCore == CoreInit /\ [][CoreNext]_vars

(***************************************************************************)
(* The content script of one page: option loading, input events through    *)
(* the debounce, the timer callback, the answers of the service worker.    *)
(***************************************************************************)
ContentInit ==
    /\ BgInit
    /\ core = CoreIdle
    /\ \E h \in Hostnames : page = [PageIdle EXCEPT !.hostname = h]

\* Time passes.  A timer that is due may still be waiting for its turn.
PageTick ==
    /\ page.now < MaxTicks * TickMs
    /\ page' = [page EXCEPT !.now = @ + TickMs]
    /\ UNCHANGED <<bgVars, core>>

\* loadOptions (lines 63-70): the stored options, or the defaults when the
\* read fails.
PageLoadOptions(ok) ==
    /\ page.loaded = "pending"
    /\ page' = [page EXCEPT !.loaded = "done",
                            !.options = IF ok THEN page.stored ELSE pageDefaultOptions]
    /\ UNCHANGED <<bgVars, core>>

\* options.js saveOptions, seen from the page.
PageSaveOptions(new) ==
    /\ page.saves < MaxSaves
    /\ new # page.stored
    /\ page' = [page EXCEPT
                   !.saves = @ + 1,
                   !.stored = new,
                   !.changes = Append(@, [keys |-> {k \in PageOptionKeys :
                                                        new[k] # page.stored[k]},
                                          newValue |-> new])]
    /\ UNCHANGED <<bgVars, core>>

\* storage.onChanged listener (lines 72-79): a copy with the changed keys.
PageStorageChanged ==
    /\ page.changes # <<>>
    /\ LET ch == Head(page.changes)
           updated == [k \in PageOptionKeys |->
                          IF k \in ch.keys THEN ch.newValue[k] ELSE page.options[k]]
       IN  page' = [page EXCEPT !.options = updated, !.changes = Tail(@)]
    /\ UNCHANGED <<bgVars, core>>

\* onInput (lines 236-240) for an input or keyup event, and the debounced
\* call: clearTimeout(timer); timer = setTimeout(...).
PageEvent(target) ==
    /\ page.events < MaxEvents
    /\ IF isEditable(target)
       THEN LET id == Len(page.eventTimes) + 1
            IN  page' = [page EXCEPT
                            !.events = @ + 1,
                            !.eventTimes = Append(@, page.now),
                            !.timers = setTimeout(clearTimeout(@, page.timer), id,
                                                  target, page.now),
                            !.timer = id]
       ELSE page' = [page EXCEPT !.events = @ + 1]
    /\ UNCHANGED <<bgVars, core>>

\* document click listener (line 244).
PageClick ==
    /\ page.bubble.display # "none"
    /\ page' = hideBubble(page)
    /\ UNCHANGED <<bgVars, core>>

\* A timer that is due runs its callback.
\* page.fired lists the currentOptions each debounced call has read.
PageTimerFires(t, wordData) ==
    /\ t \in page.timers
    /\ page.now >= t.due
    /\ wordData \in WordData(t.target)
    /\ page' = requestSpellcheck([page EXCEPT !.timers = @ \ {t},
                                              !.fired = Append(@, page.options)],
                                 t.target, wordData, t.id)
    /\ UNCHANGED <<bgVars, core>>

\* The callback of a sendMessage runs with the answer.
PageResponse(m, result) ==
    /\ m \in page.awaiting
    /\ result \in PageResultsFor(page.sent[m].token)
    /\ page' = handleSpellcheckResult([page EXCEPT !.awaiting = @ \ {m}], result)
    /\ UNCHANGED <<bgVars, core>>

\* A click on a button of the bubble: its listener (line 155), then the
\* click listener of the document (line 244).
PageApply(suggestion) ==
    /\ page.bubble.display # "none"
    /\ suggestion \in Range(page.bubble.content)
    /\ page' = hideBubble(applySuggestion(page, suggestion))
    /\ UNCHANGED <<bgVars, core>>

TimerRecords ==
    [id : 1..MaxEvents, due : {k * TickMs + DebounceDelay : k \in 0..MaxTicks},
     target : Targets]

\* Every word getWordFrom... can find, and those of a page whose text is
\* the one word ab.
AllWordData == UNION {WordData(target) : target \in Targets}
OneWordData == {d \in AllWordData : d.word \in {<<>>, <<"a", "b">>}}

ContentNext ==
    \/ PageTick
    \/ \E ok \in BOOLEAN : PageLoadOptions(ok)
    \/ \E new \in PageOptionChoices : PageSaveOptions(new)
    \/ PageStorageChanged
    \/ \E target \in Targets : PageEvent(target)
    \/ PageClick
    \/ \E t \in TimerRecords, wordData \in OneWordData : PageTimerFires(t, wordData)
    \/ \E m \in 1..MaxEvents, result \in PageResults : PageResponse(m, result)

SpecContent == ContentInit /\ [][ContentNext]_vars

(***************************************************************************)
(* The content script of a page with two words, and the buttons of the     *)
(* bubble: the caret moves from one word to the other between requests.    *)
(***************************************************************************)
SuggestNext ==
    \/ PageTick
    \/ \E ok \in BOOLEAN : PageLoadOptions(ok)
    \/ \E new \in PageOptionChoices : PageSaveOptions(new)
    \/ PageStorageChanged
    \/ \E target \in Targets : PageEvent(target)
    \/ PageClick
    \/ \E t \in TimerRecords, wordData \in AllWordData : PageTimerFires(t, wordData)
    \/ \E m \in 1..MaxEvents, result \in PageResults : PageResponse(m, result)
    \/ \E suggestion \in UNION {Range(r.suggestions) : r \in PageResults} :
          PageApply(suggestion)

SpecSuggest == ContentInit /\ [][SuggestNext]_vars

(***************************************************************************)
(* Properties.                                                             *)
(***************************************************************************)
CorrectResponse(token) ==
    [token |-> token, isCorrect |-> TRUE, suggestions |-> <<>>]

\* Request i ran lines 500-507 on a loaded lexicon (enabled, lexicon there).
Checked(i) == req[i].pc = "done" /\ req[i].customWasRead

LexiconOf(i) == modelCache[req[i].promise].model

\* The entries of a custom-word string: split on commas, trimmed, lower-cased.
CustomEntries(raw) ==
    LET pieces == split(raw, ",")
    IN  {toLowerCase(trim(pieces[k])) : k \in 1..Len(pieces)}

AllWhitespace(token) == \A k \in 1..Len(token) : isWhitespace(token[k])

(* C1: with the feature enabled and the lexicon loaded, a token whose      *)
(* lower-case form is in the lexicon dictionary is answered                *)
(* {isCorrect: true, suggestions: []}, whatever the custom-word string.    *)
C1_DictionaryWordIsCorrect ==
    \A i \in Requests :
        (Checked(i) /\ toLowerCase(req[i].token) \in LexiconOf(i).dictionary)
            => req[i].responses = <<CorrectResponse(req[i].token)>>

C1_Witness ==
    \E i \in Requests :
        /\ Checked(i)
        /\ req[i].token # toLowerCase(req[i].token)
        /\ toLowerCase(req[i].token) \in LexiconOf(i).dictionary
        /\ req[i].customRead # <<>>

(* C2: a token whose lower-case form equals an entry of the custom-word    *)
(* string (split on commas, trimmed, lower-cased) is answered isCorrect:   *)
(* true with no suggestions, also when the dictionary lacks it.            *)
C2_CustomWordIsCorrect ==
    \A i \in Requests :
        (Checked(i) /\ toLowerCase(req[i].token) \in CustomEntries(req[i].customRead))
            => /\ req[i].responses # <<>>
               /\ \A k \in 1..Len(req[i].responses) :
                     /\ req[i].responses[k].isCorrect
                     /\ req[i].responses[k].suggestions = <<>>

C2_Witness ==
    \E i \in Requests :
        /\ Checked(i)
        /\ toLowerCase(req[i].token) \in CustomEntries(req[i].customRead)
        /\ toLowerCase(req[i].token) \notin LexiconOf(i).dictionary
        /\ req[i].responses # <<>>

(* C3: an empty or whitespace-only token is answered exactly               *)
(* {isCorrect: true, suggestions: []} for every lexicon and custom-word    *)
(* set.  (Stated as claimed; the code only tests for the empty string.)    *)
C3_BlankTokenIsCorrect ==
    (core.pc = "checked" /\ AllWhitespace(core.token))
        => core.verdict = CorrectVerdict

(* C4: whenever a step of handling a SPELLCHECK request fails (options     *)
(* load, lexicon fetch or parse, a token that is no string), the one       *)
(* response sent is {isCorrect: true, suggestions: []}.                    *)
C4_FailureAnswersCorrect ==
    \A i \in Requests :
        req[i].failed => req[i].responses = <<CorrectResponse(req[i].token)>>

C4_Witness ==
    /\ \E i \in Requests :
          req[i].failed /\ ~req[i].isString /\ req[i].touched
              /\ modelCache[req[i].promise].state = "fulfilled"
    /\ \E i \in Requests :
          \/ req[i].failed /\ req[i].enabledRead = "unread"
          \/ req[i].failed /\ req[i].isString /\ req[i].touched
                /\ modelCache[req[i].promise].state = "rejected"

(* C5: at most one fetch is started per lexicon URL, whatever the          *)
(* interleaving of the loadModel calls: one caller starts it and every     *)
(* other caller of the same URL gets the promise already in the cache.     *)
C5_OneFetchPerUrl ==
    /\ \A u \in Urls : fetches[u] <= 1
    /\ \A u \in Urls :
          Cardinality({i \in Requests : req[i].started /\ req[i].promise = u}) <= 1
    /\ \A i \in Requests :
          req[i].touched => /\ req[i].promise = getModelUrl(req[i].languageRead)
                            /\ fetches[req[i].promise] = 1

C5_Witness ==
    \E i, j \in Requests :
        /\ i # j
        /\ req[i].touched /\ req[j].touched
        /\ req[i].promise = req[j].promise
        /\ req[i].pc = "awaitModel" /\ req[j].pc = "awaitModel"
        /\ req[i].started /\ ~req[j].started
        /\ fetches[req[i].promise] = 1

(* C6: when the enabled flag suggestCorrections reads is false, the        *)
(* verdict is {isCorrect: true, suggestions: []} and the call neither      *)
(* reads the lexicon cache nor starts a lexicon load.                      *)
C6_DisabledSkipsLexicon ==
    \A i \in Requests :
        req[i].enabledRead = "no"
            => /\ req[i].pc = "done"
               /\ req[i].responses = <<CorrectResponse(req[i].token)>>
               /\ ~req[i].touched
               /\ ~req[i].started
               /\ req[i].promise = "none"

C6_Witness ==
    \E i \in Requests :
        /\ req[i].enabledRead = "no"
        /\ req[i].pc = "done"
        /\ \A u \in Urls : modelCache[u].state = "absent" /\ fetches[u] = 0

(* C7: the sequence rankCandidates returns has at most 5 entries, in       *)
(* non-increasing order of score (bigram log score plus ln frequency).     *)
C7_RankedTopFiveDescending ==
    core.pc = "ranked"
        => /\ Len(core.ranked) <= 5
           /\ \A k \in 1..(Len(core.ranked) - 1) :
                 candidateScore(core.ranked[k], core.model)
                     >= candidateScore(core.ranked[k + 1], core.model)

KnownCandidates ==
    {c \in Range(core.candidates) :
        c \in core.model.dictionary \/ c \in parseCustomWords(core.customWords)}

C7_Witness ==
    /\ core.pc = "ranked"
    /\ core.source = "generator"
    /\ Cardinality(KnownCandidates) > 5
    /\ Len(core.ranked) = 5
    /\ candidateScore(core.ranked[1], core.model)
          > candidateScore(core.ranked[5], core.model)

(* C8: every string rankCandidates returns, and so every suggestion of a   *)
(* verdict, is in the lexicon dictionary or in the parsed custom-word set. *)
C8_SuggestionsAreKnown ==
    /\ core.pc = "ranked"
          => \A k \in 1..Len(core.ranked) :
                \/ core.ranked[k] \in core.model.dictionary
                \/ core.ranked[k] \in CustomEntries(core.customWords) \ {<<>>}
    /\ core.pc = "checked"
          => \A k \in 1..Len(core.verdict.suggestions) :
                \/ core.verdict.suggestions[k] \in core.model.dictionary
                \/ core.verdict.suggestions[k] \in CustomEntries(core.customWords) \ {<<>>}

C8_Witness ==
    /\ core.pc = "ranked"
    /\ \E k \in 1..Len(core.ranked) : core.ranked[k] \notin core.model.dictionary
    /\ \E k \in 1..Len(core.ranked) : core.ranked[k] \in core.model.dictionary
    /\ \E c \in Range(core.candidates) :
          c \notin KnownCandidates /\ c \in DOMAIN core.model.frequencies

(* C9: two calls with the same token, made with the same options (enabled, *)
(* language, custom words) left unchanged while the call ran, get the same *)
(* verdict, whatever other requests ran in between.                        *)
OptionsHeld(i) ==
    /\ req[i].pc = "done"
    /\ req[i].enabledRead # "unread"
    /\ req[i].customWasRead => req[i].customRead = req[i].customAtCall

C9_SameInputsSameVerdict ==
    \A i, j \in Requests :
        ( /\ OptionsHeld(i) /\ OptionsHeld(j)
          /\ req[i].token = req[j].token
          /\ req[i].isString = req[j].isString
          /\ req[i].enabledRead = req[j].enabledRead
          /\ req[i].languageRead = req[j].languageRead
          /\ req[i].customAtCall = req[j].customAtCall )
            => req[i].responses = req[j].responses

C9_Witness ==
    \E i, j \in Requests :
        /\ i < j
        /\ Checked(i) /\ Checked(j)
        /\ OptionsHeld(i) /\ OptionsHeld(j)
        /\ req[i].token = req[j].token
        /\ req[i].languageRead = req[j].languageRead
        /\ req[i].customAtCall = req[j].customAtCall
        /\ ~req[i].responses[1].isCorrect
        /\ Len(req[i].responses[1].suggestions) = 5
        /\ req[i].started /\ ~req[j].started

(* C10: the set editDistanceOne returns never contains the input word.     *)
(* (Stated as claimed; substituting a letter by itself gives the word.)    *)
C10_GeneratorExcludesWord ==
    (core.pc = "generated" /\ core.source = "generator")
        => core.token \notin Range(core.candidates)

(* C11: every language value other than 'pt-PT' (a misspelled tag, the     *)
(* empty string, undefined) makes loadModel use the key and the lexicon of *)
(* 'en-US'; only 'pt-PT' selects the Portuguese lexicon.                   *)
C11_UnknownLanguageFallsBack ==
    /\ \A l \in LanguageValues \ {"pt-PT"} :
          /\ loadModel(l, modelCache, fetches) = loadModel("en-US", modelCache, fetches)
          /\ loadModel(l, modelCache, fetches).promise = ModelUrl
    /\ loadModel("pt-PT", modelCache, fetches).promise = PtUrl
    /\ \A i \in Requests :
          req[i].touched
              => /\ req[i].languageRead = "pt-PT" <=> req[i].promise = PtUrl
                 /\ req[i].languageRead # "pt-PT" <=> req[i].promise = ModelUrl
                 /\ modelCache[req[i].promise].state = "fulfilled"
                       => LexiconOf(i) = parseModel(files[req[i].promise])

C11_Witness ==
    \E i \in Requests :
        /\ Checked(i)
        /\ req[i].languageRead = "fr-FR"
        /\ req[i].promise = ModelUrl
        /\ LexiconOf(i) = parseModel(EnglishFile)
        /\ modelCache[PtUrl].state = "absent"

(* C12: with dictionary {hello, help, hell}, frequencies hello 100,        *)
(* help 10, hell 5 and no recorded bigram score, the check of 'helo'       *)
(* answers isCorrect: false with 'hello' before 'help' and before 'hell'   *)
(* in the suggestions.                                                     *)
IndexIn(seq, x) == CHOOSE k \in 1..Len(seq) : seq[k] = x

HelloScenario ==
    /\ core.pc = "checked"
    /\ core.token = <<"h", "e", "l", "o">>
    /\ core.model = parseModel(HelloFile)

C12_HelloRankedFirst ==
    HelloScenario
        => LET suggestions == core.verdict.suggestions
               hello == <<"h", "e", "l", "l", "o">>
               help  == <<"h", "e", "l", "p">>
               hell  == <<"h", "e", "l", "l">>
           IN  /\ core.verdict.isCorrect = FALSE
               /\ {hello, help, hell} \subseteq Range(suggestions)
               /\ IndexIn(suggestions, hello) < IndexIn(suggestions, help)
               /\ IndexIn(suggestions, hello) < IndexIn(suggestions, hell)

C12_Witness ==
    /\ HelloScenario
    /\ core.customWords = NoCustomWords
    /\ Len(core.verdict.suggestions) = 3
    /\ core.verdict.suggestions[1] = <<"h", "e", "l", "l", "o">>

(* C13: every SPELLCHECK message gets exactly one response.  No message    *)
(* is ever answered twice, a response echoes the message's token and is    *)
(* there exactly when the call has ended; and, the options read and the    *)
(* lexicon load settling (SpecLive), every message received is eventually  *)
(* answered.                                                               *)
AnsweredOnce(i) ==
    /\ Len(req[i].responses) = 1
    /\ req[i].responses[1].token = req[i].token

C13_ExactlyOneResponse ==
    /\ [](\A i \in Requests :
            /\ Len(req[i].responses) <= 1
            /\ req[i].pc = "done" <=> AnsweredOnce(i)
            /\ req[i].pc # "done" => req[i].responses = <<>>)
    /\ \A i \in Requests : (req[i].pc # "none") ~> AnsweredOnce(i)

C13_Witness ==
    /\ \A i \in Requests : req[i].pc = "done" /\ AnsweredOnce(i)
    /\ \E i \in Requests : req[i].failed /\ req[i].touched
    /\ \E i \in Requests : Checked(i) /\ ~req[i].responses[1].isCorrect

(* C14: for a word of any length n >= 0, editDistanceOne returns exactly   *)
(* the strings one deletion, one transposition of adjacent characters,     *)
(* one substitution by an alphabet letter or one insertion of an alphabet  *)
(* letter gives, each once and nothing else; the empty word gives exactly  *)
(* the one-letter strings, a one-character word no transposition.          *)
Alphabet == Range(letters)

Deleted(w) ==
    {SubSeq(w, 1, k - 1) \o SubSeq(w, k + 1, Len(w)) : k \in 1..Len(w)}

Transposed(w) ==
    {[w EXCEPT ![k] = w[k + 1], ![k + 1] = w[k]] : k \in 1..(Len(w) - 1)}

Substituted(w) ==
    {[w EXCEPT ![k] = c] : k \in 1..Len(w), c \in Alphabet}

Inserted(w) ==
    {SubSeq(w, 1, k) \o <<c>> \o SubSeq(w, k + 1, Len(w)) : k \in 0..Len(w), c \in Alphabet}

Generated == core.pc = "generated" /\ core.source = "generator"

C14_GeneratorIsExactlyOneEdit ==
    Generated
        => LET w == core.token
           IN  /\ Range(core.candidates)
                     = Deleted(w) \cup Transposed(w) \cup Substituted(w) \cup Inserted(w)
               /\ Len(core.candidates) = Cardinality(Range(core.candidates))
               /\ Range(deletes(w)) = Deleted(w) /\ Len(deletes(w)) = Len(w)
               /\ Range(transposes(w)) = Transposed(w)
               /\ Len(transposes(w)) = IF w = <<>> THEN 0 ELSE Len(w) - 1
               /\ Range(replaces(w)) = Substituted(w)
               /\ Len(replaces(w)) = Len(w) * Len(letters)
               /\ Range(inserts(w)) = Inserted(w)
               /\ Len(inserts(w)) = (Len(w) + 1) * Len(letters)
               /\ \A k \in 1..Len(core.candidates) :
                     /\ Len(core.candidates[k]) >= Len(w) - 1
                     /\ Len(core.candidates[k]) <= Len(w) + 1
               /\ w = <<>> => Range(core.candidates) = {<<c>> : c \in Alphabet}
               /\ Len(w) = 1 => transposes(w) = <<>>

C14_Witness ==
    /\ Generated
    /\ Len(core.token) = 2
    /\ core.token[1] # core.token[2]
    /\ <<core.token[2], core.token[1]>> \in Range(core.candidates)
    /\ <<core.token[1]>> \in Range(core.candidates)
    /\ Cardinality(Range(core.candidates)) > 3 * Len(letters)

(* C15: the alphabet of substitutions and insertions follows the language  *)
(* of the check: an English check generates candidates with the letters    *)
(* a to z only (besides the characters of the word), and only a            *)
(* Portuguese check uses the letters with diacritics.  (Stated as claimed; *)
(* editDistanceOne has one alphabet and is not given the language.)        *)
AsciiLetters == {letters[k] : k \in 1..26}

UsesOnly(alphabet) ==
    \A k \in 1..Len(core.candidates) :
        Range(core.candidates[k]) \subseteq alphabet \cup Range(core.token)

C15_AlphabetFollowsLanguage ==
    Generated
        => IF core.language = "pt-PT"
           THEN UsesOnly(Alphabet)
           ELSE UsesOnly(AsciiLetters)

(* C16: candidates of equal score come out of rankCandidates in the order  *)
(* the generator produced them, also across the cut at five; and the       *)
(* generator's order is deletions, transpositions, substitutions,          *)
(* insertions, each by ascending position and then alphabet order, a       *)
(* string several edits give standing at its first occurrence.             *)
OrderedEdits(w) ==
    LET n == Len(w)
        a == Len(letters)
    IN  [k \in 1..n |-> SubSeq(w, 1, k - 1) \o SubSeq(w, k + 1, n)]
        \o [k \in 1..(n - 1) |-> [w EXCEPT ![k] = w[k + 1], ![k + 1] = w[k]]]
        \o [m \in 1..(n * a) |->
               [w EXCEPT ![((m - 1) \div a) + 1] = letters[((m - 1) % a) + 1]]]
        \o [m \in 1..((n + 1) * a) |->
               SubSeq(w, 1, (m - 1) \div a) \o <<letters[((m - 1) % a) + 1]>>
                   \o SubSeq(w, ((m - 1) \div a) + 1, n)]

FirstIndex(seq, x) ==
    LET at == {k \in 1..Len(seq) : seq[k] = x}
    IN  CHOOSE k \in at : \A j \in at : k <= j

ScoredIndex(c) == CHOOSE k \in 1..Len(core.scored) : core.scored[k].candidate = c

TiesKeepGeneratorOrder ==
    LET at == [k \in 1..Len(core.ranked) |-> ScoredIndex(core.ranked[k])]
    IN  /\ \A k \in 1..(Len(core.ranked) - 1) :
              \/ core.scored[at[k]].score > core.scored[at[k + 1]].score
              \/ /\ core.scored[at[k]].score = core.scored[at[k + 1]].score
                 /\ at[k] < at[k + 1]
        /\ \A j \in 1..Len(core.scored) :
              core.scored[j].candidate \notin Range(core.ranked)
                  => /\ Len(core.ranked) = MaxSuggestions
                     /\ \/ core.scored[at[MaxSuggestions]].score > core.scored[j].score
                        \/ /\ core.scored[at[MaxSuggestions]].score = core.scored[j].score
                           /\ at[MaxSuggestions] < j

GeneratorOrderIsFixed ==
    LET edits == OrderedEdits(core.token)
        first == [k \in 1..Len(core.candidates) |-> FirstIndex(edits, core.candidates[k])]
    IN  /\ Range(core.candidates) = Range(edits)
        /\ \A k \in 1..(Len(core.candidates) - 1) : first[k] < first[k + 1]

C16_TiesInGeneratorOrder ==
    /\ core.pc = "ranked" => TiesKeepGeneratorOrder
    /\ Generated => GeneratorOrderIsFixed

C16_Witness ==
    /\ core.pc = "ranked"
    /\ core.source = "generator"
    /\ Len(core.scored) > MaxSuggestions
    /\ \E j \in 1..Len(core.scored) :
          /\ core.scored[j].candidate \notin Range(core.ranked)
          /\ core.scored[j].score = candidateScore(core.ranked[MaxSuggestions], core.model)

(* C17: a candidate known only through the custom words (not in the        *)
(* lexicon dictionary) is scored with frequency 1: its score is its bigram *)
(* log score plus ln(1) = 0, whatever the frequency table holds.  (Stated  *)
(* as claimed; line 484 looks every candidate up in the table.)            *)
C17_CustomOnlyScoresFrequencyOne ==
    core.pc = "ranked"
        => \A k \in 1..Len(core.scored) :
              core.scored[k].candidate \notin core.model.dictionary
                  => core.scored[k].score
                         = scoreWord(core.scored[k].candidate, core.model.bigramScores)

(* C18: scoreWord of a word of length n >= 2 is the sum, over the n - 1    *)
(* windows of two adjacent characters of the lower-cased word, of the      *)
(* recorded bigram score, an unrecorded bigram counting -1.5 (-1500        *)
(* thousandths); below length 2 it is 0; 'xq' with no recorded bigram      *)
(* scores exactly -1.5.                                                    *)
RECURSIVE WindowSum(_, _, _)
WindowSum(w, table, k) ==
    IF k < 1 THEN 0
    ELSE (IF <<w[k], w[k + 1]>> \in DOMAIN table THEN table[<<w[k], w[k + 1]>>] ELSE -1500)
             + WindowSum(w, table, k - 1)

Unrecorded(w, table) ==
    {k \in 1..(Len(w) - 1) : <<w[k], w[k + 1]>> \notin DOMAIN table}

C18_ScoreWordSumsBigrams ==
    core.pc = "scored"
        => LET w == toLowerCase(core.token)
               table == core.model.bigramScores
           IN  /\ Len(w) < 2 => core.score = 0
               /\ Len(w) >= 2 => core.score = WindowSum(w, table, Len(w) - 1)
               /\ Cardinality(Unrecorded(w, table)) = Len(w) - 1
                     => core.score = -1500 * (Len(w) - 1)
               /\ (w = <<"x", "q">> /\ <<"x", "q">> \notin DOMAIN table)
                     => core.score = -1500

C18_Witness ==
    /\ core.pc = "scored"
    /\ core.token # toLowerCase(core.token)
    /\ Len(core.token) = 3
    /\ Cardinality(Unrecorded(toLowerCase(core.token), core.model.bigramScores)) = 1
    /\ core.score = -1700

(* C19: the content script debounces.  At most one debounce timer is       *)
(* pending; a SPELLCHECK message is sent no earlier than 200 ms after the  *)
(* input or keyup event it comes from; and an event on an editable element *)
(* followed less than 200 ms later by another one leads to no message, so  *)
(* of a burst only the last event does, and at most once.                  *)
C19_DebounceSendsLastOfBurst ==
    /\ Cardinality(page.timers) <= 1
    /\ \A t \in page.timers : t.id = Len(page.eventTimes)
    /\ \A k \in 1..Len(page.sent) :
          LET e == page.sent[k].event
          IN  /\ page.sent[k].time >= page.eventTimes[e] + 200
              /\ \/ e = Len(page.eventTimes)
                 \/ page.eventTimes[e + 1] - page.eventTimes[e] >= 200
              /\ \A j \in 1..Len(page.sent) : page.sent[j].event = e => j = k

C19_Witness ==
    /\ Len(page.eventTimes) = 2
    /\ page.eventTimes[2] - page.eventTimes[1] < 200
    /\ Len(page.sent) = 1
    /\ page.sent[1].event = 2
    /\ page.sent[1].time > page.eventTimes[2] + 200
    /\ page.timers = {}

(* C20: when the debounced request fires while the enabled option is      *)
(* false, or while the allowlist has at least one entry and the page's     *)
(* hostname is none of the entries nor a subdomain of one, the content     *)
(* script sends no SPELLCHECK message, leaves suggestionState as it was    *)
(* and hides the bubble.                                                   *)
IsHostOrSubdomain(hostname, entry) ==
    \/ hostname = entry
    \/ \E k \in 1..Len(hostname) :
          /\ hostname[k] = "."
          /\ SubSeq(hostname, k + 1, Len(hostname)) = entry

GateClosed(options, hostname) ==
    \/ ~options.enabled
    \/ LET entries == allowlistEntries(options.allowlist)
       IN  /\ entries # <<>>
           /\ \A k \in 1..Len(entries) : ~IsHostOrSubdomain(hostname, entries[k])

C20_GatedRequestSendsNothing ==
    [][ (/\ Len(page'.fired) = Len(page.fired) + 1
         /\ GateClosed(page.options, page.hostname))
        => /\ page'.sent = page.sent
           /\ page'.awaiting = page.awaiting
           /\ page'.suggestionState = page.suggestionState
           /\ page'.bubble = [display |-> "none", content |-> <<>>] ]_vars

\* A request that fired behind an allowlist naming other hosts, after an
\* earlier one had been sent and answered with suggestions.
C20_Witness ==
    /\ Len(page.fired) = 2
    /\ page.fired[2].enabled
    /\ GateClosed(page.fired[2], page.hostname)
    /\ Len(page.sent) = 1
    /\ page.suggestionState.suggestions # <<>>
    /\ page.bubble.display = "none"

\* A request that fired while the extension was disabled.
C20_WitnessDisabled ==
    /\ page.fired # <<>>
    /\ ~page.fired[Len(page.fired)].enabled
    /\ page.sent = <<>>


(* C21: in every verdict, on every path (disabled, known word, empty       *)
(* token, miss with candidates, miss without candidates, failure),         *)
(* isCorrect is false exactly when suggestions is non-empty; a token that  *)
(* is not known and has no known candidate is reported correct; and the    *)
(* bubble of the content script is visible only with at least one          *)
(* suggestion button.                                                      *)
IsCorrectIffNoSuggestions(verdict) ==
    verdict.isCorrect <=> verdict.suggestions = <<>>

\* The lexicon dictionary and the non-empty custom entries.
KnownWords ==
    core.model.dictionary \cup (CustomEntries(core.customWords) \ {<<>>})

\* checkToken ran on a token that is not empty and not known.
CheckedMiss ==
    /\ core.pc = "checked"
    /\ toLowerCase(core.token) # <<>>
    /\ toLowerCase(core.token) \notin KnownWords

NoKnownEdit ==
    \A c \in Range(editDistanceOne(toLowerCase(core.token))) : c \notin KnownWords

C22_SuggestionsExcludeToken ==
    /\ core.pc = "checked"
          => toLowerCase(core.token) \notin Range(core.verdict.suggestions)
    /\ \A i \in Requests : \A k \in 1..Len(req[i].responses) :
          toLowerCase(req[i].token) \notin Range(req[i].responses[k].suggestions)

\* A verdict with suggestions for a token that is among its own candidates.
C22_Witness ==
    /\ core.pc = "checked"
    /\ toLowerCase(core.token) \in Range(editDistanceOne(toLowerCase(core.token)))
    /\ Len(core.verdict.suggestions) >= 2
    /\ core.customWords # <<>>


(* C23: under any interleaving of requests and responses, the suggestions  *)
(* shown in the bubble are those computed for the word recorded in         *)
(* suggestionState.word, and a suggestion applied by applySuggestion is    *)
(* one computed for the word its range was taken for: the response to an   *)
(* earlier request never lands on the state of a later one.                *)
(* (Stated as claimed; handleSpellcheckResult does not look at the token   *)
(* of the response.)                                                       *)
ComputedFor(word) ==
    IF word \in PageWords THEN WorkerVerdicts[word].suggestions ELSE <<>>

C23_SuggestionsBelongToCurrentWord ==
    /\ page.bubble.display # "none"
          => page.bubble.content = ComputedFor(page.suggestionState.word)
    /\ page.edit # NoEdit
          => page.edit.text \in Range(ComputedFor(page.edit.word))


(* C24: a failed lexicon load is never retried.  Once the promise of a     *)
(* model URL has rejected, it stays in modelCache as it is, no fetch for   *)
(* that URL is started again, and every check that reaches loadModel for   *)
(* that URL afterwards (enabled) is answered                               *)
(* {isCorrect: true, suggestions: []}.                                     *)
C24_RejectedLoadIsNeverRetried ==
    [][ \A u \in Urls :
          modelCache[u].state = "rejected"
              => /\ modelCache'[u] = modelCache[u]
                 /\ fetches'[u] = fetches[u]
                 /\ \A i \in Requests :
                       (/\ ~req[i].touched
                        /\ req'[i].touched
                        /\ req'[i].promise = u)
                           => /\ req'[i].pc = "done"
                              /\ req'[i].enabledRead = "yes"
                              /\ req'[i].responses = <<CorrectResponse(req'[i].token)>> ]_vars

\* A check of a misspelled token that found the rejected promise in the
\* cache, after the check that started the fetch had been answered.
C24_Witness ==
    \E i, j \in Requests :
        /\ req[j].started /\ req[j].awaited /\ req[j].failed /\ req[j].pc = "done"
        /\ req[i].touched /\ ~req[i].started /\ ~req[i].awaited
        /\ req[i].promise = req[j].promise
        /\ req[i].languageRead # req[j].languageRead
        /\ modelCache[req[i].promise].state = "rejected"
        /\ fetches[req[i].promise] = 1
        /\ toLowerCase(req[i].token) \notin parseModel(files[req[i].promise]).dictionary
        /\ req[i].responses = <<CorrectResponse(req[i].token)>>
=============================================================================
